---- MODULE Spec2Model ----
(***************************************************************************)
(* Model of dnephin/proto-gen-html: the protoc plugin that renders html    *)
(* templates from proto descriptors.                                       *)
(*                                                                         *)
(*   - tmpl/funcs.go (and its later revision with trimExt / typeURL):      *)
(*     trimExt, typeURL / urlToType, location, findCachedItem, walkPath,   *)
(*     protoFields                                                         *)
(*   - tmpl/generator.go: Generate, genTarget, getProtoFileFromTarget      *)
(*   - tmpl/funcs.go: comments                                            *)
(*   - cmd/protoc-gen-html: paramsToMap                                    *)
(*                                                                         *)
(* Go strings are sequences of one-character strings, so that Split,       *)
(* TrimSpace and filepath.Ext are computed as the code computes them.      *)
(***************************************************************************)
EXTENDS Integers, Sequences, FiniteSets, TLC

VARIABLES
    extIn,      \* trimExt: the argument s
    extOut,     \* trimExt: the returned string, once called
    paramIn,    \* paramsToMap: r.GetParameter()
    paramOut,   \* paramsToMap: the returned map, once called
    cmtIn,      \* comments: the argument c
    cmtOut,     \* comments: the returned segments, once called
    rFiles,     \* resolver: f.protoFiles, the files in caller-supplied order
    rSym,       \* resolver: symbolPath of the last template call
    rEntry,     \* resolver: which entry point was called (typeURL / urlToType)
    rOut,       \* resolver: what Resolve returned to the entry point
    rUrl,       \* resolver: what the entry point returned to the template
    records,    \* protoFileDescriptor.SourceCodeInfo.Location of each file
    ops,        \* g.config.Operations (the Target of each operation)
    opIdx,      \* Generate: index of the operation the loop is at
    pc,         \* Generate: "loop", "exec" (template running), "done", "crashed"
    funcs,      \* the tmplFuncs of the running genTarget
    nCalls,     \* template function calls made by the running template
    lastCall,   \* the last location() call: its argument and what it returned
    walked,     \* per file: walkPath calls made on its Location Records so far
    respFile,   \* response.File
    errs        \* the errs buffer of Generate, one line per failed operation

vars == <<extIn, extOut, paramIn, paramOut, cmtIn, cmtOut, rFiles, rSym, rEntry, rOut, rUrl,
          records, ops, opIdx, pc, funcs, nCalls, lastCall, walked, respFile, errs>>

extVars   == <<extIn, extOut>>
paramVars == <<paramIn, paramOut>>
cmtVars   == <<cmtIn, cmtOut>>
resVars   == <<rFiles, rSym, rEntry, rOut, rUrl>>
genVars   == <<records, ops, opIdx, pc, funcs, nCalls, lastCall, walked, respFile, errs>>

\* A call that has not been made yet: no value returned.
NotCalled == [done |-> FALSE, val |-> <<>>]

Done(v) == [done |-> TRUE, val |-> v]

----------------------------------------------------------------------------
(* Generic helpers on strings (sequences of characters).                   *)

SeqsUpTo(S, n) == UNION {[1..k -> S] : k \in 0..n}

Max(S) == CHOOSE x \in S : \A y \in S : y <= x

\* Index of the last occurrence of c in s, 0 if there is none.
LastIdx(s, c) == Max({0} \cup {i \in 1..Len(s) : s[i] = c})

\* Index of the first occurrence of c in s at or after position i, 0 if none.
FirstIdxFrom(s, c, i) ==
    LET hits == {j \in i..Len(s) : s[j] = c}
    IN  IF hits = {} THEN 0 ELSE CHOOSE j \in hits : \A k \in hits : j <= k

\* strings.Split(s, sep) for a one-character sep: the n+1 pieces around the
\* n separators; Split("", sep) is the one empty piece.
RECURSIVE Split(_, _)
Split(s, sep) ==
    LET i == FirstIdxFrom(s, sep, 1)
    IN  IF i = 0 THEN <<s>>
        ELSE <<SubSeq(s, 1, i - 1)>> \o Split(SubSeq(s, i + 1, Len(s)), sep)

\* strings.TrimSpace: leading and trailing white space removed.
RECURSIVE TrimSpace(_)
TrimSpace(s) ==
    IF s = <<>> THEN s
    ELSE IF s[1] = " " THEN TrimSpace(Tail(s))
    ELSE IF s[Len(s)] = " " THEN TrimSpace(SubSeq(s, 1, Len(s) - 1))
    ELSE s

----------------------------------------------------------------------------
(* trimExt / stripExt                                                      *)

MaxNameLen == 4

NameChars == {"a", ".", "/"}

\* filepath.Ext: scan back from the end of the path to the last separator;
\* the extension starts at the first '.' met.
RECURSIVE ExtScan(_, _)
ExtScan(s, i) ==
    IF i = 0 \/ s[i] = "/" THEN <<>>
    ELSE IF s[i] = "." THEN SubSeq(s, i, Len(s))
    ELSE ExtScan(s, i - 1)

Ext(s) == ExtScan(s, Len(s))

\* A slip in the slice bound: the '.' of the extension is kept.
trimExtKeepsDot(s) ==
    LET ext == Ext(s)
    IN  IF Len(ext) > 0 THEN SubSeq(s, 1, Len(s) - Len(ext) + 1) ELSE s

trimExt(s) ==
    LET ext == Ext(s)
    IN  IF Len(ext) > 0 THEN SubSeq(s, 1, Len(s) - Len(ext)) ELSE s

InitExt ==
    /\ extIn \in SeqsUpTo(NameChars, MaxNameLen)
    /\ extOut = NotCalled

TrimExtCall ==
    /\ ~extOut.done
    /\ extOut' = Done(trimExt(extIn))
    /\ UNCHANGED extIn

----------------------------------------------------------------------------
(* paramsToMap                                                             *)

MaxParamLen == 4

ParamChars == {"k", "v", "=", ",", " "}

\* The loop of paramsToMap over items[1..n]: a later item with the same key
\* overwrites the earlier one.
RECURSIVE ParamsLoop(_, _)
ParamsLoop(items, n) ==
    IF n = 0 THEN << >>
    ELSE LET parts == Split(items[n], "=")
             value == IF Len(parts) > 1 THEN TrimSpace(parts[2]) ELSE <<>>
             key   == TrimSpace(parts[1])
             prev  == ParamsLoop(items, n - 1)
         IN  [k \in (DOMAIN prev) \cup {key} |-> IF k = key THEN value ELSE prev[k]]

paramsToMap(p) ==
    LET items == Split(p, ",")
    IN  ParamsLoop(items, Len(items))

InitParams ==
    /\ paramIn \in SeqsUpTo(ParamChars, MaxParamLen)
    /\ paramOut = NotCalled

ParamsToMapCall ==
    /\ ~paramOut.done
    /\ paramOut' = Done(paramsToMap(paramIn))
    /\ UNCHANGED paramIn

----------------------------------------------------------------------------
(* comments: a comment split into its paragraphs.                          *)

MaxCommentLen == 4

\* A letter, a blank and the newline.
CommentChars == {"a", " ", "\n"}

\* bufio.Scanner with ScanLines: the text between the newlines; what follows
\* the last newline is a line only if it is not empty.
ScanLines(c) ==
    LET pieces == Split(c, "\n")
    IN  IF pieces[Len(pieces)] = <<>>
        THEN SubSeq(pieces, 1, Len(pieces) - 1) ELSE pieces

\* The loop of comments over lines[1..n]: the segments so far and the
\* segment s being built.
RECURSIVE CommentsLoop(_, _)
CommentsLoop(lines, n) ==
    IF n = 0 THEN [segments |-> << >>, s |-> <<>>]
    ELSE LET prev == CommentsLoop(lines, n - 1)
             text == lines[n]
         IN  IF Len(prev.s) > 0 /\ Len(TrimSpace(text)) = 0
             THEN [segments |-> Append(prev.segments, prev.s), s |-> <<>>]
             ELSE [segments |-> prev.segments,
                   s |-> (IF Len(prev.s) > 0 THEN prev.s \o <<" ">> ELSE <<>>)
                         \o text]

comments(c) ==
    LET lines == ScanLines(c)
        r     == CommentsLoop(lines, Len(lines))
    IN  IF Len(r.s) > 0 THEN Append(r.segments, r.s) ELSE r.segments

InitComments ==
    /\ cmtIn \in SeqsUpTo(CommentChars, MaxCommentLen)
    /\ cmtOut = NotCalled

CommentsCall ==
    /\ ~cmtOut.done
    /\ cmtOut' = Done(comments(cmtIn))
    /\ UNCHANGED cmtIn

----------------------------------------------------------------------------
(* The descriptor tree of the request (plugin.CodeGeneratorRequest.ProtoFile). *)
(* Nodes are named by their identity; two nodes may carry the same name.   *)

None == "none"

Files == {"human", "building", "annex", "world"}

Messages == {"hOptions", "bOptions", "bInner", "bSite", "aAnnex", "wRegion", "wOptions"}

FieldNodes == {"bUnit", "bCount"}

Kind(n) ==
    IF n \in Files THEN "File"
    ELSE IF n \in Messages THEN "Msg"
    ELSE IF n \in FieldNodes THEN "Field"
    ELSE "Other"

\* GetName(): the name field of a file, message or field.
Name(n) ==
    CASE n = "human"    -> <<"world", "/", "region", "/", "human", ".", "proto">>
      [] n = "building" -> <<"world", "/", "region", "/", "building", ".", "proto">>
      [] n = "annex"    -> <<"world", "/", "region", "/", "annex", ".", "proto">>
      [] n = "world"    -> <<"world", "/", "world", ".", "proto">>
      [] n = "hOptions" -> <<"Options">>
      [] n = "bOptions" -> <<"Options">>
      [] n = "bInner"   -> <<"Inner">>
      [] n = "bSite"    -> <<"Site">>
      [] n = "aAnnex"   -> <<"Annex">>
      [] n = "wRegion"  -> <<"Region">>
      [] n = "wOptions" -> <<"Options">>
      [] n = "bUnit"    -> <<"unit">>
      [] n = "bCount"   -> <<"count">>
      [] OTHER          -> <<>>

\* GetPackage(): "building" and "annex" share one package.
Package(f) ==
    CASE f = "human"    -> <<"world", ".", "human">>
      [] f = "building" -> <<"world", ".", "building">>
      [] f = "annex"    -> <<"world", ".", "building">>
      [] f = "world"    -> <<"world">>
      [] OTHER          -> <<>>

\* FileDescriptorProto.Dependency: each import, named by the file imported
\* (the string is that file's name).
Dependency(f) ==
    CASE f = "building" -> <<"world", "human">>
      [] f = "annex"    -> <<"world">>
      [] OTHER          -> << >>

\* FileDescriptorProto.MessageType
MessageType(f) ==
    CASE f = "human"    -> <<"hOptions">>
      [] f = "building" -> <<"bOptions", "bSite">>
      [] f = "annex"    -> <<"aAnnex">>
      [] f = "world"    -> <<"wRegion">>
      [] OTHER          -> << >>

\* DescriptorProto.NestedType
NestedType(m) ==
    CASE m = "bOptions" -> <<"bInner">>
      [] m = "wRegion"  -> <<"wOptions">>
      [] OTHER          -> << >>

\* DescriptorProto.Field
Field(m) ==
    CASE m = "bOptions" -> <<"bUnit", "bCount">>
      [] OTHER          -> << >>

\* DescriptorProto.ReservedName: two messages of building.proto reserve the
\* same field name.
ReservedName(m) ==
    CASE m = "bOptions" -> <<"old">>
      [] m = "bSite"    -> <<"old">>
      [] OTHER          -> << >>

Range(s) == {s[i] : i \in DOMAIN s}

----------------------------------------------------------------------------
(* Symbol Resolver: util.Resolver.Resolve, called by typeURL / urlToType.  *)

IsFullyQualified(sym) == Len(sym) > 0 /\ sym[1] = "."

\* Step 1: the leading separator removed, the rest split into segments.
Segments(sym) ==
    IF IsFullyQualified(sym) THEN Split(SubSeq(sym, 2, Len(sym)), ".")
    ELSE Split(sym, ".")

PkgSegments(f) == IF Package(f) = <<>> THEN << >> ELSE Split(Package(f), ".")

\* Segment-wise prefix (exact segment match).
IsPrefix(p, s) == Len(p) <= Len(s) /\ SubSeq(s, 1, Len(p)) = p

Drop(s, n) == SubSeq(s, n + 1, Len(s))

\* Step 3: the chain of nested-type lookups from a candidate list.
RECURSIVE ResolveIn(_, _)
ResolveIn(cands, segs) ==
    IF segs = << >> THEN None
    ELSE LET hits == {i \in DOMAIN cands : Name(cands[i]) = segs[1]}
         IN  IF hits = {} THEN None
             ELSE LET d == cands[CHOOSE i \in hits : \A j \in hits : i <= j]
                  IN  IF Len(segs) = 1 THEN d
                      ELSE ResolveIn(NestedType(d), Tail(segs))

NoMatch == [status |-> "none", def |-> None, file |-> None]

\* Resolve was not called.
Unresolved == [status |-> "pending", def |-> None, file |-> None]

Invalid == [status |-> "invalid", def |-> None, file |-> None]

\* A resolver that goes on to later files when the lookup fails inside a file
\* whose package matched.
RECURSIVE ResolveFromBacktracking(_, _, _)
ResolveFromBacktracking(segs, files, i) ==
    IF i > Len(files) THEN NoMatch
    ELSE LET pkg == PkgSegments(files[i])
             d   == IF IsPrefix(pkg, segs)
                    THEN ResolveIn(MessageType(files[i]), Drop(segs, Len(pkg)))
                    ELSE None
         IN  IF d # None THEN [status |-> "ok", def |-> d, file |-> files[i]]
             ELSE ResolveFromBacktracking(segs, files, i + 1)

\* Steps 2, 4 and 5: files in the caller's order; the first file whose package
\* is a prefix of the symbol decides.
RECURSIVE ResolveFrom(_, _, _)
ResolveFrom(segs, files, i) ==
    IF i > Len(files) THEN NoMatch
    ELSE LET pkg == PkgSegments(files[i])
         IN  IF IsPrefix(pkg, segs)
             THEN LET d == ResolveIn(MessageType(files[i]), Drop(segs, Len(pkg)))
                  IN  IF d # None
                      THEN [status |-> "ok", def |-> d, file |-> files[i]]
                      ELSE NoMatch
             ELSE ResolveFrom(segs, files, i + 1)

\* The strict entry point: a bare path is rejected.
Resolve(sym, files) ==
    IF ~IsFullyQualified(sym) THEN Invalid
    ELSE ResolveFrom(Segments(sym), files, 1)

\* f.outputFile and f.urlRoot / f.rootDir of the running operation.
OutputFile == <<"out", ".", "html">>

URLRoot == <<"docs">>

\* path.Join of two clean elements; an empty element is ignored.
Join(a, b) ==
    IF a = <<>> THEN b ELSE IF b = <<>> THEN a ELSE a \o <<"/">> \o b

RECURSIVE JoinSegs(_)
JoinSegs(segs) ==
    IF segs = << >> THEN <<>>
    ELSE IF Len(segs) = 1 THEN segs[1]
    ELSE segs[1] \o <<".">> \o JoinSegs(Tail(segs))

\* util.CountElem: the number of elements of a package path.
CountElem(pkg) == IF pkg = <<>> THEN 0 ELSE Len(Split(pkg, "."))

\* util.TrimElem: ".pkg.Type.SubType" with the n leading elements removed is
\* "Type.SubType".
TrimElem(sym, n) == JoinSegs(Drop(Segments(sym), n))

\* GetName() / GetPackage() on a nil file are the empty string.
FileName(f) == IF f = None THEN <<>> ELSE Name(f)

FilePackage(f) == IF f = None THEN <<>> ELSE Package(f)

\* The URL built without taking the extension off the file's name.
URLForKeepsExt(file, sym) ==
    LET typePath == TrimElem(sym, CountElem(FilePackage(file)))
        p        == Join(URLRoot, FileName(file) \o Ext(OutputFile))
    IN  p \o <<"#">> \o typePath

\* The URL built from the resolved file (the tail of typeURL / urlToType).
URLFor(file, sym) ==
    LET typePath == TrimElem(sym, CountElem(FilePackage(file)))
        p        == Join(URLRoot, trimExt(FileName(file)) \o Ext(OutputFile))
    IN  p \o <<"#">> \o typePath

Returned(s) == [status |-> "ok", url |-> s]

Rejected == [status |-> "invalid", url |-> <<>>]

Panicked == [status |-> "panic", url |-> <<>>]

NoReturn == [status |-> "pending", url |-> <<>>]

\* typeURL without the file == nil test.
typeURLNoNilCheck(sym, files) ==
    LET r == Resolve(sym, files)
    IN  [out |-> r,
         ret |-> IF r.status = "invalid" THEN Rejected
                 ELSE Returned(URLFor(r.file, sym))]

\* typeURL: no test of its own on symbolPath; Resolve's rejection of a bare
\* path passes through it untouched.
typeURL(sym, files) ==
    LET r == Resolve(sym, files)
    IN  [out |-> r,
         ret |-> IF r.status = "invalid" THEN Rejected
                 ELSE IF r.file = None THEN Returned(<<>>)
                 ELSE Returned(URLFor(r.file, sym))]

\* urlToType: panics on a bare path before resolving.
urlToType(sym, files) ==
    IF ~IsFullyQualified(sym)
    THEN [out |-> Unresolved, ret |-> Panicked]
    ELSE LET r == Resolve(sym, files)
         IN  [out |-> r,
              ret |-> IF r.file = None THEN Returned(<<>>)
                      ELSE Returned(URLFor(r.file, sym))]

Sym(segs) == <<".">> \o JoinSegs(segs)

SymPool ==
    { Sym(<< <<"world">>, <<"building">>, <<"Options">> >>),
      Sym(<< <<"world">>, <<"building">>, <<"Options">>, <<"Inner">> >>),
      Sym(<< <<"world">>, <<"building">>, <<"Inner">> >>),
      Sym(<< <<"world">>, <<"building">>, <<"Annex">> >>),
      Sym(<< <<"world">>, <<"building">>, <<"Missing">> >>),
      Sym(<< <<"world">>, <<"building">> >>),
      Sym(<< <<"world">>, <<"human">>, <<"Options">> >>),
      Sym(<< <<"world">>, <<"Region">> >>),
      Sym(<< <<"world">>, <<"Region">>, <<"Options">> >>),
      Sym(<< <<"other">>, <<"Thing">> >>),
      JoinSegs(<< <<"world">>, <<"building">>, <<"Options">> >>),
      <<"Options">>,
      <<>> }

\* Sequences of distinct files, in every order.
FileOrders ==
    {s \in SeqsUpTo(Files, Cardinality(Files)) :
        \A i, j \in DOMAIN s : i # j => s[i] # s[j]}

InitResolve ==
    /\ rFiles \in FileOrders
    /\ rSym = <<>>
    /\ rEntry = "none"
    /\ rOut = Unresolved
    /\ rUrl = NoReturn

NotPanicked == rUrl.status # "panic"

TypeURLCall ==
    /\ NotPanicked
    /\ \E sym \in SymPool :
          LET r == typeURL(sym, rFiles)
          IN  /\ rSym' = sym
              /\ rEntry' = "typeURL"
              /\ rOut' = r.out
              /\ rUrl' = r.ret
    /\ UNCHANGED rFiles

UrlToTypeCall ==
    /\ NotPanicked
    /\ \E sym \in SymPool :
          LET r == urlToType(sym, rFiles)
          IN  /\ rSym' = sym
              /\ rEntry' = "urlToType"
              /\ rOut' = r.out
              /\ rUrl' = r.ret
    /\ UNCHANGED rFiles

----------------------------------------------------------------------------
(* Go values the template hands to location() and walkPath returns: an     *)
(* interface{} holding a pointer to a descriptor struct, a pointer to a    *)
(* scalar field, a slice field, or nothing (nil).                          *)

Ptr(n) == [k |-> "ptr", n |-> n, t |-> 0, i |-> 0]

Scalar(n, tag) == [k |-> "scalar", n |-> n, t |-> tag, i |-> 0]

Slice(n, tag) == [k |-> "slice", n |-> n, t |-> tag, i |-> 0]

\* Element i of the repeated string field tag of node n. The interface holds
\* a copy of the string; n, t and i say which element it was copied from.
Str(n, tag, i) == [k |-> "str", n |-> n, t |-> tag, i |-> i]

\* The nil interface: walkPath's found when nothing was found.
NilVal == [k |-> "nil", n |-> None, t |-> 0, i |-> 0]

\* A value of a named type of another package (not a descriptor).
OtherVal == [k |-> "other", n |-> None, t |-> 0, i |-> 0]

\* The dynamic type of a value in an interface{}.
GoType(v) ==
    CASE v.k = "ptr"    -> <<"*", Kind(v.n)>>
      [] v.k = "scalar" -> IF Kind(v.n) = "Field" /\ v.t = 3
                           THEN <<"*", "int32">> ELSE <<"*", "string">>
      [] v.k = "slice"  -> IF \/ Kind(v.n) = "File" /\ v.t = 3
                              \/ Kind(v.n) = "Msg" /\ v.t = 10
                           THEN <<"[]", "string">>
                           ELSE IF Kind(v.n) = "Msg" /\ v.t = 2
                           THEN <<"[]", "Field">> ELSE <<"[]", "Msg">>
      [] OTHER          -> <<v.k, "">>

\* The protobuf struct tags of the descriptor types, in field order:
\* <<tag id, the Go value of the field>>.
StructFields(n) ==
    CASE Kind(n) = "File"  -> << <<1, Scalar(n, 1)>>, <<2, Scalar(n, 2)>>,
                                 <<3, Slice(n, 3)>>, <<4, Slice(n, 4)>> >>
      [] Kind(n) = "Msg"   -> << <<1, Scalar(n, 1)>>, <<2, Slice(n, 2)>>,
                                 <<3, Slice(n, 3)>>, <<10, Slice(n, 10)>> >>
      [] Kind(n) = "Field" -> << <<1, Scalar(n, 1)>>, <<3, Scalar(n, 3)>> >>
      [] OTHER             -> << >>

\* The elements of a slice field.
SliceElems(n, tag) ==
    CASE Kind(n) = "File" /\ tag = 3 -> Dependency(n)
      [] Kind(n) = "File" /\ tag = 4 -> MessageType(n)
      [] Kind(n) = "Msg" /\ tag = 2  -> Field(n)
      [] Kind(n) = "Msg" /\ tag = 3  -> NestedType(n)
      [] Kind(n) = "Msg" /\ tag = 10 -> ReservedName(n)
      [] OTHER                       -> << >>

\* A protoFields that numbers the elements of a slice from one.
protoFieldsOneBased(v) ==
    CASE v.k = "slice" ->
            LET es == SliceElems(v.n, v.t)
            IN  [i \in DOMAIN es |->
                    <<i, IF GoType(v) = <<"[]", "string">>
                         THEN Str(v.n, v.t, i - 1) ELSE Ptr(es[i])>>]
      [] v.k = "ptr"   -> StructFields(v.n)
      [] OTHER         -> << >>

\* protoFields: the <<id, value>> pairs fn is invoked with, in order. A slice
\* yields its elements under their zero-based index, a struct its tagged
\* fields under their tag id, anything else nothing.
protoFields(v) ==
    CASE v.k = "slice" ->
            LET es == SliceElems(v.n, v.t)
            IN  [i \in DOMAIN es |->
                    <<i - 1, IF GoType(v) = <<"[]", "string">>
                             THEN Str(v.n, v.t, i - 1) ELSE Ptr(es[i])>>]
      [] v.k = "ptr"   -> StructFields(v.n)
      [] OTHER         -> << >>

\* Position of the first pair of fs with the given id, 0 if none.
FirstWithId(fs, id) ==
    LET hits == {i \in DOMAIN fs : fs[i][1] = id}
    IN  IF hits = {} THEN 0 ELSE CHOOSE i \in hits : \A j \in hits : i <= j

\* A walker that, when the index is past the end of a slice, takes its last
\* element instead of finding nothing.
RECURSIVE walkerClamping(_, _)
walkerClamping(v, path) ==
    LET fs == protoFields(v)
        i  == FirstWithId(fs, path[1])
        c  == IF i = 0 /\ v.k = "slice" /\ fs # << >> THEN Len(fs) ELSE i
    IN  IF c = 0 THEN NilVal
        ELSE IF Len(path) = 1 THEN fs[c][2]
        ELSE walkerClamping(fs[c][2], Tail(path))

\* The walker closure of walkPath: skips the pairs whose id is not the target,
\* and at the first that is either takes its value (path exhausted) or walks
\* on inside it; it never returns to a sibling.
RECURSIVE walker(_, _)
walker(v, path) ==
    LET fs == protoFields(v)
        i  == FirstWithId(fs, path[1])
    IN  IF i = 0 THEN NilVal
        ELSE IF Len(path) = 1 THEN fs[i][2]
        ELSE walker(fs[i][2], Tail(path))

walkPath(path, file) ==
    IF Len(path) = 0 THEN Ptr(file) ELSE walker(Ptr(file), path)

\* The string an element of a repeated string field holds.
StrVal(v) == SliceElems(v.n, v.t)[v.i + 1]

\* i.V == x on two interface values: different dynamic types are unequal, two
\* slices of one type cannot be compared (a run-time panic), pointers are
\* equal when they point to the same thing, strings when they read the same.
GoEq(a, b) ==
    IF GoType(a) # GoType(b) THEN "false"
    ELSE IF a.k = "slice" THEN "panic"
    ELSE IF a.k = "str" THEN (IF StrVal(a) = StrVal(b) THEN "true" ELSE "false")
    ELSE IF a = b THEN "true" ELSE "false"

NoSpan == 0

Found(span) == [status |-> "ok", span |-> span]

LookupPanic == [status |-> "panic", span |-> NoSpan]

\* findCachedItem: the L of the first item whose V is x, nil if none.
RECURSIVE findCachedItem(_, _, _)
findCachedItem(cache, x, i) ==
    IF i > Len(cache) THEN Found(NoSpan)
    ELSE LET e == GoEq(cache[i].V, x)
         IN  IF e = "panic" THEN LookupPanic
             ELSE IF e = "true" THEN Found(cache[i].L)
             ELSE findCachedItem(cache, x, i + 1)

\* The Location Records of a file: each path with its span (its position in
\* SourceCodeInfo.Location names the span).
Locations(paths) == [i \in DOMAIN paths |-> [path |-> paths[i], span |-> i]]

\* A build loop whose items all hold the Location of the last iteration.
BuildCacheLastLoc(locs, file) ==
    [i \in DOMAIN locs |->
        [V |-> walkPath(locs[i].path, file), L |-> locs[Len(locs)].span]]

\* A build loop that appends no item for a Location whose path walks to nil.
BuildCacheOmitNoNode(locs, file) ==
    LET all == [i \in DOMAIN locs |->
                   [V |-> walkPath(locs[i].path, file), L |-> locs[i].span]]
        Denotes(e) == e.V # NilVal
    IN  SelectSeq(all, Denotes)

\* The build loop of location: one cacheItem per Location, in order.
BuildCache(locs, file) ==
    [i \in DOMAIN locs |-> [V |-> walkPath(locs[i].path, file), L |-> locs[i].span]]

\* location(x) on a tmplFuncs f whose file has the Location Records locs:
\* the cache after the call, what the call returned, and how many records it
\* walked. A nil locCache is the empty sequence.
location(f, locs, x) ==
    IF x.k \in {"other", "nil"}
    THEN [cache |-> f.locCache, ret |-> LookupPanic, walks |-> 0]
    ELSE IF f.locCache = << >> /\ f.pfd = None
    THEN [cache |-> f.locCache, ret |-> LookupPanic, walks |-> 0]
    ELSE LET cache == IF f.locCache = << >>
                      THEN BuildCache(locs, f.pfd) ELSE f.locCache
         IN  [cache |-> cache,
              ret   |-> findCachedItem(cache, x, 1),
              walks |-> IF f.locCache = << >> THEN Len(locs) ELSE 0]

----------------------------------------------------------------------------
(* Generate: the loop over the configured operations, genTarget, and the   *)
(* template of the running operation calling location().                   *)

MaxRecords == 2

MaxOps == 2

MaxCalls == 2

\* request.GetProtoFile()
ReqFiles == <<"human", "building">>

\* Index-paths of Location Records of building.proto. 99 is no tag of any
\* descriptor type; building.proto has two messages, Options has two fields.
PathPool ==
    { << >>, <<4, 0>>, <<4, 1>>, <<4, 0, 2, 0>>, <<4, 0, 3, 0>>, <<4, 0, 1>>,
      <<4, 0, 10, 0>>, <<4, 1, 10, 0>>, <<4, 0, 3, 1>>, <<4>>, <<4, 2>>, <<4, 0, 99, 0>>, <<99>>, <<4, 5, 2, 0>> }

GenPathPool == { <<4, 0>>, <<4, 2>> }

\* Values a template passes to location().
XPool ==
    { Ptr("building"), Ptr("bOptions"), Ptr("bInner"), Ptr("bUnit"), Ptr("bSite"),
      Scalar("bOptions", 1), Slice("building", 4), Ptr("hOptions"),
      Str("bOptions", 10, 0), Str("bSite", 10, 0), OtherVal }

GenXPool == { Ptr("bOptions"), Ptr("bSite") }

\* OperationConfig.Target: an input file, no target, or a file not in the request.
TargetPool ==
    { Name("building"), Name("human"), <<>>, <<"missing", ".", "proto">> }

NoFuncs == [pfd |-> None, locCache |-> << >>]

NoCall == [called |-> FALSE, x |-> NilVal, ret |-> Found(NoSpan)]

\* getProtoFileFromTarget: the first input file named target, nil if none.
getProtoFileFromTarget(target, files) ==
    LET hits == {i \in DOMAIN files : Name(files[i]) = target}
    IN  IF hits = {} THEN None
        ELSE files[CHOOSE i \in hits : \A j \in hits : i <= j]

\* genTarget's first test: the operation fails when it names a target that
\* is no input file.
NoInputFile(target, protoFile) == target # <<>> /\ protoFile = None

InitGen ==
    /\ records \in [{"building"} -> SeqsUpTo(GenPathPool, MaxRecords)]
    /\ ops \in SeqsUpTo(TargetPool, MaxOps)
    /\ opIdx = 1
    /\ pc = "loop"
    /\ funcs = NoFuncs
    /\ nCalls = 0
    /\ lastCall = NoCall
    /\ walked = [f \in Range(ReqFiles) |-> 0]
    /\ respFile = << >>
    /\ errs = << >>

\* SourceCodeInfo.Location of a file; human.proto has one record.
RecordsOf(f) ==
    IF f \in DOMAIN records THEN records[f]
    ELSE IF f = "human" THEN << <<4, 0>> >>
    ELSE << >>

InLoop == pc = "loop" /\ opIdx <= Len(ops)

\* genTarget returns the "no input proto file" error.
GenTargetNoInput ==
    /\ InLoop
    /\ NoInputFile(ops[opIdx], getProtoFileFromTarget(ops[opIdx], ReqFiles))
    /\ errs' = Append(errs, <<opIdx, "no input proto file">>)
    /\ opIdx' = opIdx + 1
    /\ UNCHANGED <<records, ops, pc, funcs, nCalls, lastCall, walked, respFile>>

\* genTarget: loadTemplate fails (the template file is missing or does not parse).
GenTargetLoadFails ==
    /\ InLoop
    /\ ~NoInputFile(ops[opIdx], getProtoFileFromTarget(ops[opIdx], ReqFiles))
    /\ errs' = Append(errs, <<opIdx, "failed to load template">>)
    /\ opIdx' = opIdx + 1
    /\ UNCHANGED <<records, ops, pc, funcs, nCalls, lastCall, walked, respFile>>

\* genTarget: the template is loaded, the tmplFuncs are made, Execute starts.
GenTargetExecute ==
    /\ InLoop
    /\ ~NoInputFile(ops[opIdx], getProtoFileFromTarget(ops[opIdx], ReqFiles))
    /\ pc' = "exec"
    /\ funcs' = [pfd |-> getProtoFileFromTarget(ops[opIdx], ReqFiles),
                 locCache |-> << >>]
    /\ nCalls' = 0
    /\ lastCall' = NoCall
    /\ UNCHANGED <<records, ops, opIdx, walked, respFile, errs>>

\* The running template calls location(x). A panic in a template function is
\* not recovered by Execute: the process dies.
LocationCall(pool) ==
    /\ pc = "exec"
    /\ nCalls < MaxCalls
    /\ \E x \in pool :
          LET r == location(funcs, Locations(RecordsOf(funcs.pfd)), x)
          IN  /\ funcs' = [funcs EXCEPT !.locCache = r.cache]
              /\ lastCall' = [called |-> TRUE, x |-> x, ret |-> r.ret]
              /\ walked' = [f \in DOMAIN walked |->
                              IF f = funcs.pfd THEN walked[f] + r.walks ELSE walked[f]]
              /\ pc' = IF r.ret.status = "panic" THEN "crashed" ELSE "exec"
    /\ nCalls' = nCalls + 1
    /\ UNCHANGED <<records, ops, opIdx, respFile, errs>>

\* genTarget: Execute returned without error; the output file is appended.
ExecuteOk ==
    /\ pc = "exec"
    /\ respFile' = Append(respFile, opIdx)
    /\ opIdx' = opIdx + 1
    /\ pc' = "loop"
    /\ funcs' = NoFuncs
    /\ nCalls' = 0
    /\ lastCall' = NoCall
    /\ UNCHANGED <<records, ops, walked, errs>>

\* genTarget: Execute returned an error ("failed to render template").
ExecuteFails ==
    /\ pc = "exec"
    /\ errs' = Append(errs, <<opIdx, "failed to render template">>)
    /\ opIdx' = opIdx + 1
    /\ pc' = "loop"
    /\ funcs' = NoFuncs
    /\ nCalls' = 0
    /\ lastCall' = NoCall
    /\ UNCHANGED <<records, ops, walked, respFile>>

\* A Generate that returns the files of the operations that succeeded along
\* with the errors.
GenerateReturnKeepsFiles ==
    /\ pc = "loop"
    /\ opIdx > Len(ops)
    /\ pc' = "done"
    /\ UNCHANGED <<records, ops, opIdx, funcs, nCalls, lastCall, walked, respFile, errs>>

\* Generate: the loop is over; any error empties response.File.
GenerateReturn ==
    /\ pc = "loop"
    /\ opIdx > Len(ops)
    /\ pc' = "done"
    /\ respFile' = IF Len(errs) > 0 THEN << >> ELSE respFile
    /\ UNCHANGED <<records, ops, opIdx, funcs, nCalls, lastCall, walked, errs>>

\* One tmplFuncs, as genTarget makes it for an operation on building.proto,
\* with its template running.
InitLoc ==
    /\ records \in [{"building"} -> SeqsUpTo(PathPool, MaxRecords)]
    /\ ops = << Name("building") >>
    /\ opIdx = 1
    /\ pc = "exec"
    /\ funcs = [pfd |-> "building", locCache |-> << >>]
    /\ nCalls = 0
    /\ lastCall = NoCall
    /\ walked = [f \in Range(ReqFiles) |-> 0]
    /\ respFile = << >>
    /\ errs = << >>

----------------------------------------------------------------------------
(* Specifications of the stateless parts. Each leaves the variables of the *)
(* other parts at rest.                                                    *)

IdleExt == extIn = <<>> /\ extOut = NotCalled

IdleParams == paramIn = <<>> /\ paramOut = NotCalled

IdleComments == cmtIn = <<>> /\ cmtOut = NotCalled

IdleResolve ==
    /\ rFiles = << >>
    /\ rSym = <<>>
    /\ rEntry = "none"
    /\ rOut = Unresolved
    /\ rUrl = NoReturn

IdleGen ==
    /\ records = << >>
    /\ ops = << >>
    /\ opIdx = 0
    /\ pc = "idle"
    /\ funcs = NoFuncs
    /\ nCalls = 0
    /\ lastCall = NoCall
    /\ walked = << >>
    /\ respFile = << >>
    /\ errs = << >>

NextExt == TrimExtCall /\ UNCHANGED <<paramVars, cmtVars, resVars, genVars>>

InitSpecExt == InitExt /\ IdleParams /\ IdleComments /\ IdleResolve /\ IdleGen

SpecExt ==
    /\ InitSpecExt
    /\ [][NextExt]_vars

NextParams == ParamsToMapCall /\ UNCHANGED <<extVars, cmtVars, resVars, genVars>>

InitSpecParams == InitParams /\ IdleExt /\ IdleComments /\ IdleResolve /\ IdleGen

SpecParams ==
    /\ InitSpecParams
    /\ [][NextParams]_vars

NextComments == CommentsCall /\ UNCHANGED <<extVars, paramVars, resVars, genVars>>

InitSpecComments == InitComments /\ IdleExt /\ IdleParams /\ IdleResolve /\ IdleGen

SpecComments ==
    /\ InitSpecComments
    /\ [][NextComments]_vars

NextResolve ==
    \/ TypeURLCall /\ UNCHANGED <<extVars, paramVars, cmtVars, genVars>>
    \/ UrlToTypeCall /\ UNCHANGED <<extVars, paramVars, cmtVars, genVars>>

InitSpecResolve == InitResolve /\ IdleExt /\ IdleParams /\ IdleComments /\ IdleGen

SpecResolve ==
    /\ InitSpecResolve
    /\ [][NextResolve]_vars

Next ==
    \/ GenTargetNoInput /\ UNCHANGED <<extVars, paramVars, cmtVars, resVars>>
    \/ GenTargetLoadFails /\ UNCHANGED <<extVars, paramVars, cmtVars, resVars>>
    \/ GenTargetExecute /\ UNCHANGED <<extVars, paramVars, cmtVars, resVars>>
    \/ LocationCall(GenXPool) /\ UNCHANGED <<extVars, paramVars, cmtVars, resVars>>
    \/ ExecuteOk /\ UNCHANGED <<extVars, paramVars, cmtVars, resVars>>
    \/ ExecuteFails /\ UNCHANGED <<extVars, paramVars, cmtVars, resVars>>
    \/ GenerateReturn /\ UNCHANGED <<extVars, paramVars, cmtVars, resVars>>

Init == InitGen /\ IdleExt /\ IdleParams /\ IdleComments /\ IdleResolve

Spec ==
    /\ Init
    /\ [][Next]_vars

NextLoc == LocationCall(XPool) /\ UNCHANGED <<extVars, paramVars, cmtVars, resVars>>

InitSpecLoc == InitLoc /\ IdleExt /\ IdleParams /\ IdleComments /\ IdleResolve

SpecLoc ==
    /\ InitSpecLoc
    /\ [][NextLoc]_vars

----------------------------------------------------------------------------
(* Claims about the resolver.                                              *)

\* The fully-qualified names a list of definitions declares under a prefix,
\* each with the definition it names.
RECURSIVE DeclaredIn(_, _)
DeclaredIn(prefix, defs) ==
    UNION { {<<prefix \o <<".">> \o Name(d), d>>}
            \cup DeclaredIn(prefix \o <<".">> \o Name(d), NestedType(d))
            : d \in Range(defs) }

Declared(f) == DeclaredIn(<<".">> \o Package(f), MessageType(f))

Declares(f, sym) == \E pr \in Declared(f) : pr[1] = sym

\* An entry point was called with a fully-qualified path and Resolve answered.
Called == rEntry # "none" /\ rOut # Unresolved /\ IsFullyQualified(rSym)

\* Whether a file before position i has a package that is a prefix of the symbol.
ShadowedAt(i) ==
    \E j \in 1..(i - 1) : IsPrefix(PkgSegments(rFiles[j]), Segments(rSym))

\* The page part of a returned URL: what precedes '#'.
PageOf(url) == SubSeq(url, 1, FirstIdxFrom(url, "#", 1) - 1)

\* The page of a file: its name with ".proto" replaced by ".html", under docs/.
PageFor(f) ==
    <<"docs", "/">> \o SubSeq(Name(f), 1, Len(Name(f)) - 2) \o <<".", "html">>

\* C1 as stated: every fully-qualified symbol declared in a loaded file resolves
\* to the declaring file and the nested definition, also when another file of
\* the same package lacks the symbol.
C1_ResolveDeclaringFile ==
    Called =>
        \A i \in DOMAIN rFiles : \A pr \in Declared(rFiles[i]) :
            pr[1] = rSym =>
                rOut = [status |-> "ok", def |-> pr[2], file |-> rFiles[i]]

\* C1 amended: the declaring file and the nested definition are returned (and
\* the URL names the declaring file's page) provided no file earlier in the
\* caller's order has a package that is a segment-wise prefix of the symbol;
\* when there is such an earlier file, the result is no match.
C1_ResolveDeclaringFileUnshadowed ==
    Called =>
        \A i \in DOMAIN rFiles : \A pr \in Declared(rFiles[i]) :
            pr[1] = rSym =>
                IF ShadowedAt(i)
                THEN rOut = NoMatch /\ rUrl = Returned(<<>>)
                ELSE /\ rOut = [status |-> "ok", def |-> pr[2], file |-> rFiles[i]]
                     /\ rUrl.status = "ok"
                     /\ PageOf(rUrl.url) = PageFor(rFiles[i])

\* C1 witness: building.proto is listed first and ahead of the same-package
\* annex.proto; .world.building.Options.Inner resolves to the nested Inner.
C1_Witness ==
    /\ rEntry = "typeURL"
    /\ Len(rFiles) = 4 /\ rFiles[1] = "building" /\ rFiles[2] = "annex"
    /\ rSym = Sym(<< <<"world">>, <<"building">>, <<"Options">>, <<"Inner">> >>)
    /\ rOut = [status |-> "ok", def |-> "bInner", file |-> "building"]

FirstPrefixFile ==
    LET hits == {i \in DOMAIN rFiles : IsPrefix(PkgSegments(rFiles[i]), Segments(rSym))}
    IN  IF hits = {} THEN 0 ELSE CHOOSE i \in hits : \A j \in hits : i <= j

\* C2: first matching namespace wins. The first file (in the caller's order)
\* whose package is a prefix of the symbol decides alone: its definition is
\* returned if it declares the symbol, and otherwise the result is no match,
\* later files untried. For two same-package files of which only the second
\* declares the symbol the result is no match, and the swapped order finds it.
C2_FirstNamespaceWins ==
    Called =>
        LET k == FirstPrefixFile
        IN  /\ k = 0 => rOut = NoMatch
            /\ k > 0 =>
                  IF Declares(rFiles[k], rSym)
                  THEN rOut.status = "ok" /\ rOut.file = rFiles[k]
                       /\ <<rSym, rOut.def>> \in Declared(rFiles[k])
                  ELSE rOut = NoMatch
            /\ ( /\ Len(rFiles) = 2
                 /\ Package(rFiles[1]) = Package(rFiles[2])
                 /\ ~Declares(rFiles[1], rSym)
                 /\ Declares(rFiles[2], rSym) )
               => /\ rOut = NoMatch
                  /\ Resolve(rSym, <<rFiles[2], rFiles[1]>>).file = rFiles[2]

\* C2 witness: annex.proto (same package, no Options) is listed before
\* building.proto, and .world.building.Options finds no match.
C2_Witness ==
    /\ rEntry = "typeURL"
    /\ rFiles = <<"annex", "building">>
    /\ rSym = Sym(<< <<"world">>, <<"building">>, <<"Options">> >>)
    /\ rOut = NoMatch

\* C3 as stated: a bare symbol path given to a strict entry point (typeURL or
\* urlToType) comes back to the caller as a validation error; it is neither
\* resolved nor a panic.
C3_BareRejectedWithError ==
    (rEntry # "none" /\ ~IsFullyQualified(rSym)) => rUrl = Rejected

\* C7: a fully-qualified symbol that no loaded file declares resolves to no
\* definition and no file, without error, and the entry point returns the
\* empty string.
C7_AbsentSymbolNoMatch ==
    (Called /\ \A f \in Range(rFiles) : ~Declares(f, rSym))
        => rOut = NoMatch /\ rUrl = Returned(<<>>)

\* C7 witness: all four files loaded, .world.building.Missing is in no file
\* although two files have its package; typeURL returned "".
C7_Witness ==
    /\ rEntry = "typeURL"
    /\ Len(rFiles) = 4
    /\ rSym = Sym(<< <<"world">>, <<"building">>, <<"Missing">> >>)
    /\ rOut = NoMatch
    /\ rUrl = Returned(<<>>)

----------------------------------------------------------------------------
(* Claims about the string helpers.                                        *)

\* The items of the parameter string and, for an item, its key and value as
\* written: what precedes and what follows its first '='.
ItemsOf(p) == Split(p, ",")

KeyAsWritten(item) ==
    LET eq == FirstIdxFrom(item, "=", 1)
    IN  IF eq = 0 THEN item ELSE SubSeq(item, 1, eq - 1)

ValueAsWritten(item) ==
    LET eq == FirstIdxFrom(item, "=", 1)
    IN  IF eq = 0 THEN <<>> ELSE SubSeq(item, eq + 1, Len(item))

\* C9 as stated: white space is preserved. Every item k=v (the last one with
\* its key) is in the map under k with exactly v as written, leading and
\* trailing white space and any further '=' included; an item without '='
\* maps to the empty value. (The key is read without surrounding white space,
\* so that only the value decides.)
C9_WhitespacePreserved ==
    paramOut.done =>
        LET items  == ItemsOf(paramIn)
            key(i) == TrimSpace(KeyAsWritten(items[i]))
        IN  \A i \in DOMAIN items :
                (\A j \in DOMAIN items : j > i => key(j) # key(i))
                => /\ key(i) \in DOMAIN paramOut.val
                   /\ paramOut.val[key(i)] = ValueAsWritten(items[i])

NumDots(s) == Cardinality({i \in DOMAIN s : s[i] = "."})

\* C10: trimExt(s) is s without its final extension, the suffix from the last
\* '.' of the last path element, and s itself when there is none; on a name
\* with at most one '.', trimming the result again changes nothing.
C10_TrimExtRemovesFinalExt ==
    extOut.done =>
        LET dot   == LastIdx(extIn, ".")
            slash == LastIdx(extIn, "/")
        IN  /\ dot > slash => extOut.val = SubSeq(extIn, 1, dot - 1)
            /\ dot <= slash => extOut.val = extIn
            /\ NumDots(extIn) <= 1 => trimExt(extOut.val) = extOut.val

\* C10 witness: "/a.a" was trimmed to "/a".
C10_Witness ==
    /\ extIn = <<"/", "a", ".", "a">>
    /\ extOut = Done(<<"/", "a">>)

----------------------------------------------------------------------------
(* Claims about the Location Cache and the walker.                         *)

\* The node each index-path of PathPool denotes in building.proto, read off
\* the file: [4,i] is the i-th message, [4,0,2,j] the j-th field of Options,
\* [4,0,3,k] its k-th nested type, [4,0,1] its name, [4] the message list.
NodeAt(path) ==
    CASE path = << >>         -> Ptr("building")
      [] path = <<4>>         -> Slice("building", 4)
      [] path = <<4, 0>>      -> Ptr("bOptions")
      [] path = <<4, 1>>      -> Ptr("bSite")
      [] path = <<4, 0, 1>>   -> Scalar("bOptions", 1)
      [] path = <<4, 0, 2, 0>> -> Ptr("bUnit")
      [] path = <<4, 0, 3, 0>> -> Ptr("bInner")
      [] path = <<4, 0, 10, 0>> -> Str("bOptions", 10, 0)
      [] path = <<4, 1, 10, 0>> -> Str("bSite", 10, 0)
      [] OTHER                -> NilVal

Paths == RecordsOf("building")

CacheBuilt == funcs.pfd = "building" /\ funcs.locCache # << >>

\* The first record whose path denotes node v, 0 if none.
FirstRecordOf(v) ==
    LET hits == {i \in DOMAIN Paths : NodeAt(Paths[i]) = v}
    IN  IF hits = {} THEN 0 ELSE CHOOSE i \in hits : \A j \in hits : i <= j

\* C4 as stated: every Location Record walks to a node, and a Lookup of that
\* node (one that returns) returns exactly that record's span.
C4_RoundTripEveryRecord ==
    CacheBuilt =>
        \A i \in DOMAIN Paths :
            /\ funcs.locCache[i].V # NilVal
            /\ ( /\ lastCall.called
                 /\ lastCall.ret.status = "ok"
                 /\ lastCall.x = funcs.locCache[i].V )
               => lastCall.ret = Found(i)

\* C4 amended: every Location Record whose path denotes a File, Definition or
\* Field walks to that node, and Lookup of that node returns the span of the
\* first record (in record order) that walks to the same node: the record's
\* own span unless an earlier record has the same path. This holds whatever
\* the other records are and whatever was looked up before.
C4_RoundTripFirstRecord ==
    CacheBuilt =>
        \A i \in DOMAIN Paths :
            NodeAt(Paths[i]).k = "ptr" =>
                /\ funcs.locCache[i].V = NodeAt(Paths[i])
                /\ (lastCall.called /\ lastCall.x = NodeAt(Paths[i]))
                       => /\ lastCall.ret = Found(FirstRecordOf(lastCall.x))
                          /\ Paths[lastCall.ret.span] = Paths[i]

\* C4 witness: the second lookup, after a lookup of another node, finds the
\* field [4,0,2,0] recorded second, behind a record that walks to no node.
C4_Witness ==
    /\ CacheBuilt
    /\ nCalls = 2
    /\ Paths = << <<4, 2>>, <<4, 0, 2, 0>> >>
    /\ lastCall.x = Ptr("bUnit")
    /\ lastCall.ret = Found(2)

\* The records that walk to a node, each with its span.
RECURSIVE Denoting(_)
Denoting(locs) ==
    IF locs = << >> THEN << >>
    ELSE IF NodeAt(locs[1].path) = NilVal THEN Denoting(Tail(locs))
    ELSE <<locs[1]>> \o Denoting(Tail(locs))

\* C5: a path with an unknown tag number or an out-of-range index, at any
\* step, walks to no node without a panic, and every Lookup on the file
\* returns what it would return had those paths not been among the records.
C5_NoNodeDoesNotPoison ==
    CacheBuilt =>
        /\ \A i \in DOMAIN Paths :
              NodeAt(Paths[i]) = NilVal => funcs.locCache[i].V = NilVal
        /\ lastCall.called =>
              lastCall.ret =
                  location([pfd |-> "building", locCache |-> << >>],
                           Denoting(Locations(Paths)), lastCall.x).ret

\* C5 witness: a record with an out-of-range index precedes the record of
\* Site, the last message; the lookup of Site returned Site's own span.
C5_Witness ==
    /\ CacheBuilt
    /\ Paths = << <<4, 2>>, <<4, 1>> >>
    /\ lastCall.x = Ptr("bSite")
    /\ lastCall.ret = Found(2)

\* C6 as stated: the Location Records of a file are walked at most once in a
\* run, whatever the lookups and the operations.
C6_BuiltOncePerFile ==
    \A f \in DOMAIN walked : walked[f] <= Len(RecordsOf(f))

\* C8 as stated: the template is executed only for an operation whose Target
\* is the name of an input proto file.
C8_ExecutedOnlyForInputFile ==
    pc = "exec" => \E i \in DOMAIN ReqFiles : Name(ReqFiles[i]) = ops[opIdx]

----------------------------------------------------------------------------
(* The Location Cache as built, the comparison of Lookup, and the walk.    *)

\* C11 as stated: once the cache of a file is built it holds exactly one
\* entry per Location Record whose path walks to a node, and no entry for a
\* record whose path walks to no node.
C11_NoNodeOmitted ==
    CacheBuilt =>
        /\ Len(funcs.locCache) =
              Cardinality({i \in DOMAIN Paths : NodeAt(Paths[i]) # NilVal})
        /\ \A j \in DOMAIN funcs.locCache : funcs.locCache[j].V # NilVal

\* C11 amended: once the cache of a file is built it holds one entry per
\* Location Record, in record order; the entry of a record whose path walks to
\* no node holds no node (nil) and is never what a Lookup returns, and no
\* Lookup of a File, Definition or Field fails, whatever the records are.
C11_NoNodeEntryHoldsNil ==
    CacheBuilt =>
        /\ Len(funcs.locCache) = Len(Paths)
        /\ \A i \in DOMAIN Paths :
              /\ funcs.locCache[i].L = i
              /\ (funcs.locCache[i].V = NilVal) = (NodeAt(Paths[i]) = NilVal)
        /\ lastCall.called =>
              /\ lastCall.ret.span # NoSpan =>
                    NodeAt(Paths[lastCall.ret.span]) # NilVal
              /\ lastCall.x.k = "ptr" => lastCall.ret.status = "ok"

\* C11 witness: the cache was built from a record of an unknown tag and the
\* record of Options; the entry of the first holds nil, and the lookup of
\* Options returned the second.
C11_Witness ==
    /\ CacheBuilt
    /\ Paths = << <<99>>, <<4, 0>> >>
    /\ funcs.locCache[1].V = NilVal
    /\ lastCall.x = Ptr("bOptions")
    /\ lastCall.ret = Found(2)

\* The first cache entry whose node is the very node v, NoSpan if none.
FirstEntryOf(v) ==
    LET hits == {j \in DOMAIN funcs.locCache : funcs.locCache[j].V = v}
    IN  IF hits = {} THEN NoSpan
        ELSE funcs.locCache[CHOOSE j \in hits : \A h \in hits : j <= h].L

\* C12 as stated: a Lookup that returns compares nodes by identity only: it
\* returns the span of the first cache entry whose walked node is the very
\* node that was queried, and none if there is no such entry; two distinct
\* nodes of equal value never match.
C12_IdentityOnly ==
    (CacheBuilt /\ lastCall.called /\ lastCall.ret.status = "ok") =>
        lastCall.ret = Found(FirstEntryOf(lastCall.x))

\* C13: the empty path walks to the root File; [4,i] to the i-th top-level
\* message, [4,i,2,j] to its j-th field, [4,i,3,k] to its k-th nested type,
\* [4] to the collection of messages itself; a tag no record has or an index
\* past the end of a collection walks to no node, at the step where it
\* occurs and whatever the siblings are.
C13_WalkPathAlternates ==
    CacheBuilt =>
        \A r \in DOMAIN Paths :
            LET p  == Paths[r]
                v  == funcs.locCache[r].V
                ms == MessageType("building")
                m  == ms[p[2] + 1]
                InMsg == Len(p) >= 2 /\ p[1] = 4 /\ p[2] < Len(ms)
            IN  /\ p = << >> => v = Ptr("building")
                /\ p = <<4>> => v = Slice("building", 4)
                /\ (Len(p) >= 1 /\ p[1] = 99) => v = NilVal
                /\ (Len(p) >= 2 /\ p[1] = 4 /\ p[2] >= Len(ms)) => v = NilVal
                /\ (InMsg /\ Len(p) = 2) => v = Ptr(m)
                /\ (InMsg /\ Len(p) = 4 /\ p[3] = 2) =>
                      v = IF p[4] < Len(Field(m))
                          THEN Ptr(Field(m)[p[4] + 1]) ELSE NilVal
                /\ (InMsg /\ Len(p) = 4 /\ p[3] = 3) =>
                      v = IF p[4] < Len(NestedType(m))
                          THEN Ptr(NestedType(m)[p[4] + 1]) ELSE NilVal
                /\ (InMsg /\ Len(p) >= 3 /\ p[3] = 99) => v = NilVal

\* C13 witness: the cache holds the walk of [4,0,3,0], the nested type Inner
\* of Options, and of [4,0,3,1], one past Inner, which is no node although
\* the message after Options has index 1.
C13_Witness ==
    /\ CacheBuilt
    /\ Paths = << <<4, 0, 3, 0>>, <<4, 0, 3, 1>> >>
    /\ funcs.locCache[1].V = Ptr("bInner")
    /\ funcs.locCache[2].V = NilVal

\* C14 as stated: a Lookup with a value of a kind that is no descriptor fails
\* as an error of that one call: the cache is what it was before the call and
\* the template goes on, so that later Lookups happen and find what they
\* would have found.
C14_UnknownKindLocalError ==
    [][(nCalls' = nCalls + 1 /\ lastCall'.x.k = "other")
          => (funcs' = funcs /\ pc' = "exec")]_vars

----------------------------------------------------------------------------
(* Generate's response.                                                    *)

\* The operations that failed so far, in the order their lines were written.
FailedOps == [i \in DOMAIN errs |-> errs[i][1]]

Increasing(s) == \A i, j \in DOMAIN s : i < j => s[i] < s[j]

\* C16: while Generate runs, every operation before the current one has
\* either its file in response.File or its line in errs, each list in config
\* order (a failure does not stop the loop); the response returned has, when
\* no operation failed, no Error and the files of all operations in config
\* order, and otherwise no file and one Error line per failed operation in
\* config order.
C16_AllOrNothing ==
    /\ pc \in {"loop", "exec"} =>
          /\ Range(respFile) \cup Range(FailedOps) = 1 .. (opIdx - 1)
          /\ Range(respFile) \cap Range(FailedOps) = {}
          /\ Increasing(respFile) /\ Increasing(FailedOps)
    /\ pc = "done" =>
          /\ opIdx = Len(ops) + 1
          /\ Increasing(FailedOps)
          /\ Range(FailedOps) \subseteq DOMAIN ops
          /\ IF errs = << >>
             THEN respFile = [i \in DOMAIN ops |-> i]
             ELSE respFile = << >>

\* C16 witness: of two operations the first failed (its target is no input
\* file) and the second was still run and succeeded; the response has one
\* Error line and no file.
C16_Witness ==
    /\ pc = "done"
    /\ Len(ops) = 2
    /\ FailedOps = <<1>>
    /\ ops[2] = Name("building")
    /\ respFile = << >>

----------------------------------------------------------------------------
(* comments                                                                *)

\* A blank line: empty, or white space only.
Blank(line) == \A i \in DOMAIN line : line[i] = " "

\* The lines of a run joined by single spaces.
RECURSIVE JoinLines(_)
JoinLines(run) ==
    IF Len(run) = 1 THEN run[1]
    ELSE run[1] \o <<" ">> \o JoinLines(Tail(run))

\* The maximal runs of non-blank lines among lines[1..n] (the last one
\* still open in run), each joined.
RECURSIVE RunsOf(_, _)
RunsOf(lines, n) ==
    IF n = 0 THEN [closed |-> << >>, run |-> << >>]
    ELSE LET prev == RunsOf(lines, n - 1)
         IN  IF Blank(lines[n])
             THEN [closed |-> IF prev.run = << >> THEN prev.closed
                              ELSE Append(prev.closed, JoinLines(prev.run)),
                   run |-> << >>]
             ELSE [closed |-> prev.closed, run |-> Append(prev.run, lines[n])]

Paragraphs(c) ==
    LET lines == ScanLines(c)
        r     == RunsOf(lines, Len(lines))
    IN  IF r.run = << >> THEN r.closed ELSE Append(r.closed, JoinLines(r.run))

\* C17 as stated: comments(c) returns, in order, the maximal runs of
\* non-blank lines of c, each joined by single spaces; blank lines give no
\* text to any segment, wherever and however many they are.
C17_CommentsSegments ==
    cmtOut.done => cmtOut.val = Paragraphs(cmtIn)

====
